---- MODULE Spec2Model ----
(***************************************************************************)
(* Model of dashboard/src/app/page.tsx: the Home component (a prompt       *)
(* textarea, a submit button, a result area), its click handler handleRun  *)
(* and the HTTP request the handler issues.                                *)
(*                                                                         *)
(* Granularity.  JavaScript runs every handler and every continuation of   *)
(* an await to completion, and React applies the state updates made by one *)
(* such run together, in one render.  One action of the model is therefore *)
(* one run: the updates it makes and the render that displays them.        *)
(* (The file is a "use client" page of the Next.js app directory, which    *)
(* runs on React 18 or later: updates made after an await are batched like *)
(* those made in an event handler, and the updates of a click are rendered *)
(* before the browser delivers the next event.)                            *)
(***************************************************************************)
EXTENDS Integers, Sequences, FiniteSets, TLC

\* How many times the model lets the user click the submit button.
MaxSubmits == 2

(***************************************************************************)
(* JSON values, as res.json() produces them, and JavaScript's undefined.   *)
(***************************************************************************)
Keys == {"strategy", "results", "explanation", "detail", "strategy_name",
         "description", "sharpe_ratio", "win_rate", "average_return"}

Undefined == [t |-> "undefined"]
JNull == [t |-> "null"]
JBool(b) == [t |-> "bool", v |-> b]
JNum(n) == [t |-> "num", v |-> n]
JStr(s) == [t |-> "str", v |-> s]
JArr(s) == [t |-> "arr", v |-> s]
\* An object is a function on Keys; a key the object lacks maps to undefined.
NoFields == [k \in Keys |-> Undefined]
JObj(f) == [t |-> "obj", v |-> f]

\* The strategy result the page expects from the service (section 6).
Momentum ==
    JObj([NoFields EXCEPT
        !["strategy"] = JObj([NoFields EXCEPT
            !["strategy_name"] = JStr("Momentum"),
            !["description"] = JStr("Buys winners")]),
        !["results"] = JObj([NoFields EXCEPT
            !["sharpe_ratio"] = JNum(2),
            !["win_rate"] = JStr("0.55"),
            !["average_return"] = JNum(3)]),
        !["explanation"] = JStr("Line1\nLine2")])

\* What a JSON service answers to a request it rejects.
Detail == JObj([NoFields EXCEPT !["detail"] = JStr("Not Found")])

\* A strategy with no backtest results.
StrategyOnly ==
    JObj([NoFields EXCEPT
        !["strategy"] = JObj([NoFields EXCEPT
            !["strategy_name"] = JStr("Carry")])])

\* The response bodies the model lets the service send.
BodyMomentum == "{\"strategy\":{\"strategy_name\":\"Momentum\",\"description\":\"Buys winners\"},\"results\":{\"sharpe_ratio\":2,\"win_rate\":\"0.55\",\"average_return\":3},\"explanation\":\"Line1\\nLine2\"}"
BodyDetail == "{\"detail\":\"Not Found\"}"
BodyStrategyOnly == "{\"strategy\":{\"strategy_name\":\"Carry\"}}"
BodyHtml == "<html>Internal Server Error</html>"

Bodies == {BodyMomentum, BodyDetail, BodyStrategyOnly, BodyHtml,
           "", "null", "false", "0", "7", "\"\"", "\"ok\"", "[]", "{}"}

\* The responses the model lets the service send: a status line and a body.
\* The handler never reads the status, so most bodies come with one status.
Responses ==
    {[status |-> 200, body |-> b] : b \in Bodies \ {BodyDetail, BodyHtml}}
    \cup {[status |-> 500, body |-> BodyMomentum],
          [status |-> 404, body |-> BodyDetail],
          [status |-> 500, body |-> BodyHtml],
          [status |-> 502, body |-> ""]}

\* What the user types into the textarea.
Prompts == {"", "momentum"}

\* The bodies res.json() parses; on the others it rejects with a SyntaxError.
IsJSON(b) == b \notin {BodyHtml, ""}

\* res.json(): the value a body that is JSON parses to.
JSONparse(b) ==
    CASE b = BodyMomentum -> Momentum
      [] b = BodyDetail -> Detail
      [] b = BodyStrategyOnly -> StrategyOnly
      [] b = "null" -> JNull
      [] b = "false" -> JBool(FALSE)
      [] b = "0" -> JNum(0)
      [] b = "7" -> JNum(7)
      [] b = "\"\"" -> JStr("")
      [] b = "\"ok\"" -> JStr("ok")
      [] b = "[]" -> JArr(<<>>)
      [] b = "{}" -> JObj(NoFields)

\* JSON.stringify({ prompt }) for a prompt with no character to escape.
JSONstringify(p) == "{\"prompt\":\"" \o p \o "\"}"

\* JavaScript's ToBoolean, which `result && ...` applies to result.
Truthy(x) ==
    CASE x.t \in {"undefined", "null"} -> FALSE
      [] x.t = "bool" -> x.v
      [] x.t = "num" -> x.v # 0
      [] x.t = "str" -> x.v # ""
      [] OTHER -> TRUE

\* x.k throws a TypeError when x is undefined or null.
GetThrows(x) == x.t \in {"undefined", "null"}

\* x.k for the other values: the field of an object, undefined elsewhere.
Get(x, k) == IF x.t = "obj" THEN x.v[k] ELSE Undefined

\* React refuses a plain object as a child and throws.
BadChild(x) == x.t = "obj"

(***************************************************************************)
(* The render, lines 36-86: what Home returns for a state.                 *)
(***************************************************************************)

\* A child {x} of an element as React displays it.
Text(x) ==
    CASE x.t = "str" -> x.v
      [] x.t = "num" -> ToString(x.v)
      [] OTHER -> ""

\* A mutant of ButtonDisabled: the button without its disabled attribute.
ButtonNeverDisabled(l) == FALSE

\* disabled={loading}
ButtonDisabled(l) == l

\* {loading ? "Running..." : "Run Strategy"}
ButtonLabel(l) == IF l THEN "Running..." ELSE "Run Strategy"

\* {loading && (<div> four Skeleton bars </div>)}
ShowSkeleton(l) == l

\* The six values the card displays, read as the JSX reads them.
CardChildren(r) ==
    LET strategy == Get(r, "strategy")
        results == Get(r, "results")
    IN  [title |-> Get(strategy, "strategy_name"),
         subtitle |-> Get(strategy, "description"),
         sharpe |-> Get(results, "sharpe_ratio"),
         winRate |-> Get(results, "win_rate"),
         avgReturn |-> Get(results, "average_return"),
         explanation |-> Get(r, "explanation")]

\* Whether building the card throws: result.strategy or result.results is
\* undefined or null, or a displayed value is an object.
CardThrows(r) ==
    \/ GetThrows(Get(r, "strategy"))
    \/ GetThrows(Get(r, "results"))
    \/ \E f \in DOMAIN CardChildren(r) : BadChild(CardChildren(r)[f])

\* {result && (<Card> ... </Card>)}: the card for a truthy result; a falsy
\* result is itself the child, and React displays the number 0 as "0".
ResultArea(r) ==
    IF Truthy(r)
    THEN [panel |-> TRUE,
          card |-> [f \in DOMAIN CardChildren(r) |-> Text(CardChildren(r)[f])]]
    ELSE [panel |-> FALSE, text |-> Text(r)]

\* The page after an error thrown while rendering: with no error boundary in
\* the component, React unmounts it.
Crashed == [mounted |-> FALSE]

\* What is on the page once Home has rendered the state <<p, l, r>>.
Render(p, l, r) ==
    IF Truthy(r) /\ CardThrows(r)
    THEN Crashed
    ELSE [mounted |-> TRUE,
          textarea |-> p,
          disabled |-> ButtonDisabled(l),
          label |-> ButtonLabel(l),
          skeleton |-> ShowSkeleton(l),
          area |-> ResultArea(r)]

(***************************************************************************)
(* The state.                                                              *)
(***************************************************************************)
VARIABLES
    prompt,     \* useState(""), line 10
    loading,    \* useState(false), line 11
    result,     \* useState(null), line 12
    view,       \* the page as last rendered
    reqs,       \* the requests handleRun has issued, in order
    log         \* the entries written with console.error

vars == <<prompt, loading, result, view, reqs, log>>

\* A request is in flight from fetch() until the promise handleRun awaits
\* last has settled.
InFlight(i) == reqs[i].phase \in {"fetch", "json"}

NoResponse == [status |-> 0, body |-> ""]

Init ==
    /\ prompt = ""
    /\ loading = FALSE
    /\ result = JNull
    /\ view = Render("", FALSE, JNull)
    /\ reqs = <<>>
    /\ log = <<>>

\* The state updates of one run take effect, and show, together.  Updates
\* of a component that is no longer mounted are dropped.
Commit(p, l, r) ==
    IF view.mounted
    THEN /\ prompt' = p
         /\ loading' = l
         /\ result' = r
         /\ view' = Render(p, l, r)
    ELSE UNCHANGED <<prompt, loading, result, view>>

\* onChange={(e) => setPrompt(e.target.value)}
Type(s) ==
    /\ view.mounted
    /\ s # prompt
    /\ Commit(s, loading, result)
    /\ UNCHANGED <<reqs, log>>

\* A mutant of Click: handleRun without its setResult(null).
ClickNoClear ==
    /\ view.mounted
    /\ ~view.disabled
    /\ Len(reqs) < MaxSubmits
    /\ reqs' = Append(reqs, [sent |-> JSONstringify(prompt),
                             phase |-> "fetch",
                             res |-> NoResponse])
    /\ Commit(prompt, TRUE, result)
    /\ UNCHANGED log

\* A click on the button, which the browser delivers only when the button
\* is not disabled: handleRun up to its first await.
Click ==
    /\ view.mounted
    /\ ~view.disabled
    /\ Len(reqs) < MaxSubmits
    /\ reqs' = Append(reqs, [sent |-> JSONstringify(prompt),
                             phase |-> "fetch",
                             res |-> NoResponse])
    /\ Commit(prompt, TRUE, JNull)
    /\ UNCHANGED log

\* A mutant of FetchResolve: loading is reset as soon as the response
\* arrives, before its body has been read.
FetchResolveEndsLoading(i, res) ==
    /\ reqs[i].phase = "fetch"
    /\ reqs' = [reqs EXCEPT ![i].phase = "json", ![i].res = res]
    /\ Commit(prompt, FALSE, result)
    /\ UNCHANGED log

\* fetch() fulfils with the response res: handleRun goes on to res.json()
\* and awaits again, whatever res.status is.
FetchResolve(i, res) ==
    /\ reqs[i].phase = "fetch"
    /\ reqs' = [reqs EXCEPT ![i].phase = "json", ![i].res = res]
    /\ UNCHANGED <<prompt, loading, result, view, log>>

\* A mutant of FetchReject: the catch block without the finally block.
FetchRejectNoFinally(i) ==
    /\ reqs[i].phase = "fetch"
    /\ reqs' = [reqs EXCEPT ![i].phase = "failed"]
    /\ log' = Append(log, [msg |-> "Failed to run strategy", req |-> i])
    /\ UNCHANGED <<prompt, loading, result, view>>

\* fetch() rejects: catch, then finally.
FetchReject(i) ==
    /\ reqs[i].phase = "fetch"
    /\ reqs' = [reqs EXCEPT ![i].phase = "failed"]
    /\ log' = Append(log, [msg |-> "Failed to run strategy", req |-> i])
    /\ Commit(prompt, FALSE, result)

\* A mutant of JsonResolve: setResult(data.strategy) for setResult(data).
JsonResolvePartial(i) ==
    /\ reqs[i].phase = "json"
    /\ IsJSON(reqs[i].res.body)
    /\ reqs' = [reqs EXCEPT ![i].phase = "done"]
    /\ Commit(prompt, FALSE, Get(JSONparse(reqs[i].res.body), "strategy"))
    /\ UNCHANGED log

\* A mutant of JsonResolve: setResult(data) rendered on its own, without
\* the setLoading(false) of the finally block (the updates not batched, or
\* setLoading(false) made only in the catch block).
JsonResolveKeepsLoading(i) ==
    /\ reqs[i].phase = "json"
    /\ IsJSON(reqs[i].res.body)
    /\ reqs' = [reqs EXCEPT ![i].phase = "done"]
    /\ Commit(prompt, loading, JSONparse(reqs[i].res.body))
    /\ UNCHANGED log

\* res.json() fulfils with data: setResult(data), then finally.
JsonResolve(i) ==
    /\ reqs[i].phase = "json"
    /\ IsJSON(reqs[i].res.body)
    /\ reqs' = [reqs EXCEPT ![i].phase = "done"]
    /\ Commit(prompt, FALSE, JSONparse(reqs[i].res.body))
    /\ UNCHANGED log

\* A mutant of JsonReject: a catch block that logs nothing.
JsonRejectNoLog(i) ==
    /\ reqs[i].phase = "json"
    /\ ~IsJSON(reqs[i].res.body)
    /\ reqs' = [reqs EXCEPT ![i].phase = "failed"]
    /\ Commit(prompt, FALSE, result)
    /\ UNCHANGED log

\* res.json() rejects: catch, then finally.
JsonReject(i) ==
    /\ reqs[i].phase = "json"
    /\ ~IsJSON(reqs[i].res.body)
    /\ reqs' = [reqs EXCEPT ![i].phase = "failed"]
    /\ log' = Append(log, [msg |-> "Failed to run strategy", req |-> i])
    /\ Commit(prompt, FALSE, result)

Next ==
    \/ \E s \in Prompts : Type(s)
    \/ Click
    \/ \E i \in DOMAIN reqs : \E res \in Responses : FetchResolve(i, res)
    \/ \E i \in DOMAIN reqs : FetchReject(i)
    \/ \E i \in DOMAIN reqs : JsonResolve(i)
    \/ \E i \in DOMAIN reqs : JsonReject(i)

Spec == Init /\ [][Next]_vars

(***************************************************************************)
(* The claims.                                                             *)
(***************************************************************************)
Issued == DOMAIN reqs
Outstanding == {i \in Issued : InFlight(i)}
Latest == Len(reqs)
Entries(i) == {k \in DOMAIN log : log[k].req = i}

\* C1: at most one request issued by handleRun is in flight at any time.
C1_AtMostOneInFlight == Cardinality(Outstanding) <= 1

\* C1's case: a second submission is in flight after the first has settled.
C1_Witness == Latest = 2 /\ ~InFlight(1) /\ InFlight(2)

\* C2: loading is true exactly while a request issued by handleRun is in
\* flight: never false with a request unsettled, never true with none.
C2_LoadingIffInFlight == loading <=> Outstanding # {}

\* C2's case: a request settled by a rejection, and loading is false again.
C2_Witness == Latest = 1 /\ reqs[1].phase = "failed" /\ ~loading

\* C3: once the request of a submission has settled (by a parsed response, a
\* rejected fetch or a body that is not JSON), loading is false and the
\* submit control is on the page and enabled again.
C3_SettledReenablesSubmit ==
    (Issued # {} /\ Outstanding = {}) =>
        /\ ~loading
        /\ view.mounted
        /\ ~view.disabled

\* C4: when the request of a submission has failed, exactly one log entry
\* was written for it (and none for a submission that has not failed); once
\* the latest submission has failed, result is absent, the page shows no
\* panel and the submit control is usable; and the step that handles a
\* failure issues no request.
C4_FailureState ==
    /\ \A i \in Issued :
          Cardinality(Entries(i)) = IF reqs[i].phase = "failed" THEN 1 ELSE 0
    /\ (Issued # {} /\ reqs[Latest].phase = "failed") =>
          /\ result = JNull
          /\ view.mounted
          /\ ~view.area.panel
          /\ view.area.text = ""
          /\ ~view.disabled

C4_NoRetry == (log' # log) => (Len(reqs') = Len(reqs))

C4_FailureSwallowed == [](C4_FailureState) /\ [][C4_NoRetry]_vars

\* C4's case: a response whose body is not JSON has been handled.
C4_Witness ==
    /\ Latest = 1
    /\ reqs[1].phase = "failed"
    /\ reqs[1].res.body = BodyHtml
    /\ Len(log) = 1

\* C5: result is absent or is the whole value the body of one response
\* parsed to, whatever the status of that response; a step that changes
\* result either clears it or stores the parsed body of the response it
\* handles.
C5_ResultState ==
    \/ result = JNull
    \/ \E i \in Issued :
          /\ reqs[i].phase = "done"
          /\ result = JSONparse(reqs[i].res.body)

C5_ResultStep ==
    (result' # result) =>
        \/ result' = JNull
        \/ \E i \in Issued :
              /\ reqs[i].phase = "json"
              /\ reqs'[i].phase = "done"
              /\ result' = JSONparse(reqs[i].res.body)

C5_ResultWhole == [](C5_ResultState) /\ [][C5_ResultStep]_vars

\* C5's case: the body of a response with status 500 has become the result.
C5_Witness ==
    /\ Latest = 1
    /\ reqs[1].phase = "done"
    /\ reqs[1].res.status = 500
    /\ result = Momentum

\* C6: from the start of a submission until its request settles, loading is
\* true, result is absent, the submit control is disabled, the placeholder
\* is shown and no panel is.
C6_WhileInFlight ==
    (Outstanding # {}) =>
        /\ loading
        /\ result = JNull
        /\ view.mounted
        /\ view.disabled
        /\ view.skeleton
        /\ ~view.area.panel
        /\ view.area.text = ""

\* C6's case: a second submission has just started after the first ended
\* with a result on the page.
C6_Witness ==
    /\ Latest = 2
    /\ reqs[1].phase = "done"
    /\ Truthy(JSONparse(reqs[1].res.body))
    /\ reqs[2].phase = "fetch"

\* C7: whenever loading is true the page shows the placeholder and no panel.
C7_PlaceholderNotPanel ==
    loading => (view.mounted /\ view.skeleton /\ ~view.area.panel)

\* C7's case: the response to a second submission has arrived and its body
\* is being read, the first submission having put a panel on the page.
C7_Witness ==
    /\ Latest = 2
    /\ reqs[1].phase = "done"
    /\ Truthy(JSONparse(reqs[1].res.body))
    /\ reqs[2].phase = "json"
    /\ IsJSON(reqs[2].res.body)
    /\ loading

\* C8: when loading is false, the page shows the panel exactly when result
\* is present, whatever JSON value result holds, and shows nothing in the
\* result area when result is absent.
C8_PanelIffResult ==
    ~loading =>
        /\ view.mounted
        /\ view.area.panel <=> (result # JNull)
        /\ (result = JNull) => (~view.area.panel /\ view.area.text = "")

\* C9: prompt is changed only by a keystroke, which changes nothing else
\* (not loading, not result, not a request), and a keystroke is possible in
\* every state.
Keystroke == \E s \in Prompts : Type(s)

C9_PromptStep ==
    (prompt' # prompt) =>
        /\ Keystroke
        /\ UNCHANGED <<loading, result, reqs, log>>

C9_PromptOwnedByUser == [](ENABLED Keystroke) /\ [][C9_PromptStep]_vars

\* The part of C9 about the steps alone: only a keystroke changes prompt,
\* and it changes nothing else.
C9_PromptFrame == [][C9_PromptStep]_vars

\* C10: whenever loading is false and result is present, result is the
\* parsed body of the response to the most recently issued request.
C10_ResultOfLatest ==
    (~loading /\ result # JNull) =>
        /\ Issued # {}
        /\ reqs[Latest].phase = "done"
        /\ result = JSONparse(reqs[Latest].res.body)

\* C10's case: the result of a second submission has replaced a different
\* result of the first.
C10_Witness ==
    /\ Latest = 2
    /\ reqs[1].phase = "done"
    /\ reqs[2].phase = "done"
    /\ Truthy(JSONparse(reqs[1].res.body))
    /\ result # JNull
    /\ result # JSONparse(reqs[1].res.body)

====
